---- MODULE Spec2Model ----
(***************************************************************************)
(* voice2code: hybrid speaker diarization (HybridDiarization over          *)
(* PyAnnoteDiarization and LocalDiarization), segment merging, and the     *)
(* alignment of transcript segments with speaker segments                  *)
(* (MeetingTranscriber).                                                   *)
(*                                                                         *)
(* Python dicts are functions with a string domain: `"error" in d` is      *)
(* "error" \in DOMAIN d.  Speaker labels are token sequences: the string   *)
(* "Speaker_SPEAKER_00_chunk1" is <<"Speaker","SPEAKER_00","_chunk","1">>, *)
(* so that split("_chunk")[0] is computed, not assumed.  Times are whole   *)
(* seconds at a sample rate of one sample per second.                      *)
(***************************************************************************)
EXTENDS Integers, Sequences, FiniteSets, TLC

VARIABLES
    init_outcome,       \* how _init_pyannote went when the orchestrator was constructed
    method,             \* HybridDiarization.method
    pyannote_diarizer,  \* HybridDiarization.pyannote_diarizer (NoneValue or the collaborator)
    scaler,             \* LocalDiarization.scaler: how many feature rows it was fit on
    pc,                 \* "idle" | "returned": is a call's outcome being observed
    call,               \* arguments of the last HybridDiarization.diarize call
    ret,                \* outcome of the last HybridDiarization.diarize call
    transcript,         \* asr_result["segments"] handed to the alignment
    diarization,        \* diarization_result["segments"] handed to the alignment
    aligned,            \* aligned_segments returned by the alignment
    window_length,      \* LocalDiarization.window_length
    hop_length,         \* LocalDiarization.hop_length
    segments,           \* list handed to a segment merge
    merged              \* list returned by that merge

vars == <<init_outcome, method, pyannote_diarizer, scaler, pc, call, ret, transcript, diarization, aligned,
          window_length, hop_length, segments, merged>>

orchestratorVars == <<init_outcome, method, pyannote_diarizer, scaler>>
callVars == <<call, ret>>
alignVars == <<transcript, diarization, aligned>>
mergeVars == <<window_length, hop_length, segments, merged>>

----------------------------------------------------------------------------
(* Bounds *)

MaxTurns == 1        \* speaker turns the external pipeline returns per invocation
MaxWindowStart == 3  \* last start (s) of a sliding window of the local extractor

----------------------------------------------------------------------------
(* Python values *)

NoneValue == "None"

Truthy(x) == x # NoneValue /\ x # ""

EmptyDict == <<>>

\* d[k] = v
DictSet(d, k, v) == (k :> v) @@ d

Has(d, k) == k \in DOMAIN d

Abs(x) == IF x < 0 THEN -x ELSE x

Min(a, b) == IF a < b THEN a ELSE b

Max(a, b) == IF a > b THEN a ELSE b

\* str(n) for the small naturals the model formats into labels
Str(n) == <<"0", "1", "2", "3", "4", "5", "6", "7", "8", "9">>[n + 1]

\* The set of values of a list: set(xs)
SetOf(xs) == {xs[i] : i \in DOMAIN xs}

\* How a call ends: it returns a value or raises the Exception exc.  trace
\* lists the diarization paths that ran during the call, in order.
Return(v, tr) == [raised |-> FALSE, value |-> v, exc |-> NoneValue, trace |-> tr]

Raise(exc, tr) == [raised |-> TRUE, value |-> EmptyDict, exc |-> exc, trace |-> tr]

NoCall == Return(EmptyDict, <<>>)

----------------------------------------------------------------------------
(* Lists *)

\* The ascending list of a finite set of integers
RECURSIVE Ascending(_)
Ascending(S) ==
    IF S = {} THEN <<>>
    ELSE LET m == CHOOSE x \in S : \A y \in S : x <= y
         IN <<m>> \o Ascending(S \ {m})

\* xs with x inserted after the last element whose start is <= x.start
\* (xs sorted by start): one step of a stable sort
InsertByStart(xs, x) ==
    LET k == Cardinality({i \in DOMAIN xs : xs[i].start <= x.start})
    IN SubSeq(xs, 1, k) \o <<x>> \o SubSeq(xs, k + 1, Len(xs))

\* list.sort(key=lambda x: x["start"]): stable, ascending by start
RECURSIVE SortByStartFrom(_, _, _)
SortByStartFrom(xs, i, acc) ==
    IF i > Len(xs) THEN acc
    ELSE SortByStartFrom(xs, i + 1, InsertByStart(acc, xs[i]))

SortByStart(xs) == SortByStartFrom(xs, 1, <<>>)

----------------------------------------------------------------------------
(* LocalDiarization (src/srv/local_diarization.py) *)

DefaultWindowLength == 2
DefaultHopLength == 1
MaxLabel == 1        \* cluster labels are 0..MaxLabel

NoSpeechMessage == "no features extracted or no speech detected"

\* f"Speaker_{label}"
LocalLabel(label) == <<"Speaker", Str(label)>>

\* extract_features: the (start, end) of every sliding window that passes the
\* energy check, in time order.  audio.speech is the set of window starts whose
\* energy is above the threshold (none when the file cannot be loaded).
ExtractFeatures(audio, wlen, hop) ==
    LET starts == {s \in audio.speech :
                     /\ hop > 0
                     /\ s % hop = 0
                     /\ s + wlen <= audio.duration}
        order == Ascending(starts)
    IN [i \in 1..Len(order) |-> [start |-> order[i], end |-> order[i] + wlen]]

\* _merge_consecutive_segments, the loop over segments[1:]
RECURSIVE MergeConsecutiveFrom(_, _, _, _)
MergeConsecutiveFrom(segs, i, acc, hop) ==
    IF i > Len(segs) THEN acc
    ELSE LET seg == segs[i]
             last_seg == acc[Len(acc)]
         IN IF /\ seg.speaker = last_seg.speaker
               /\ 2 * Abs(seg.start - last_seg.end) < 3 * hop   \* abs(..) < hop_length * 1.5
            THEN MergeConsecutiveFrom(segs, i + 1,
                     [acc EXCEPT ![Len(acc)].end = seg.end], hop)
            ELSE MergeConsecutiveFrom(segs, i + 1, Append(acc, seg), hop)

MergeConsecutiveSegments(segs, hop) ==
    IF Len(segs) = 0 THEN <<>>
    ELSE MergeConsecutiveFrom(segs, 2, <<segs[1]>>, hop)

\* self.scaler = StandardScaler() in __init__: not fit on anything yet
UnfittedScaler == [n_samples_seen |-> 0]

\* a scaler that accumulates over calls (partial_fit) instead of refitting
ScalerPartialFit(self_scaler, features) ==
    [n_samples_seen |-> self_scaler.n_samples_seen + Len(features)]

\* The fit half of self.scaler.fit_transform(features): fit drops whatever the
\* scaler had learnt and takes its statistics from these features alone
ScalerFit(self_scaler, features) ==
    [n_samples_seen |-> Len(features)]

\* cluster_speakers on a non-empty feature matrix: the refit scaler and the
\* outcome of the clustering of the scaled features.  audio.cluster is that
\* outcome (one label per window, or the clustering library raising) on these
\* features scaled by their own statistics; features scaled by any other
\* statistics are other points, put here into one cluster.
ClusterSpeakers(self_scaler, audio, features) ==
    LET fitted == ScalerFit(self_scaler, features)
    IN [scaler |-> fitted,
        outcome |-> IF fitted.n_samples_seen = Len(features)
                    THEN audio.cluster
                    ELSE [raises |-> FALSE, labels |-> [i \in DOMAIN features |-> 0]]]

\* LocalDiarization.diarize counting the windows (len(labels)) where the
\* code counts the distinct labels
LocalDiarizeCountingWindows(self_scaler, audio, wlen, hop) ==
    LET time_windows == ExtractFeatures(audio, wlen, hop)
        clustered == ClusterSpeakers(self_scaler, audio, time_windows).outcome
        labels == clustered.labels
        segs == [i \in 1..Len(time_windows) |->
                    [start |-> time_windows[i].start,
                     end |-> time_windows[i].end,
                     speaker |-> LocalLabel(labels[i])]]
        merged_segments == MergeConsecutiveSegments(segs, hop)
    IN IF Len(time_windows) = 0
       THEN Return([segments |-> <<>>, speakers |-> {}, error |-> NoSpeechMessage],
                   <<"local">>)
       ELSE IF clustered.raises
       THEN Raise("ClusteringError", <<"local">>)
       ELSE Return([segments |-> merged_segments,
                    speakers |-> {merged_segments[i].speaker : i \in DOMAIN merged_segments},
                    total_speakers |-> Len(labels)],
                   <<"local">>)

\* LocalDiarization.diarize (nothing in it catches what cluster_speakers raises)
LocalDiarize(self_scaler, audio, wlen, hop) ==
    LET time_windows == ExtractFeatures(audio, wlen, hop)
        clustered == ClusterSpeakers(self_scaler, audio, time_windows).outcome
        labels == clustered.labels
        segs == [i \in 1..Len(time_windows) |->
                    [start |-> time_windows[i].start,
                     end |-> time_windows[i].end,
                     speaker |-> LocalLabel(labels[i])]]
        merged_segments == MergeConsecutiveSegments(segs, hop)
    IN IF Len(time_windows) = 0
       THEN Return([segments |-> <<>>, speakers |-> {}, error |-> NoSpeechMessage],
                   <<"local">>)
       ELSE IF clustered.raises
       THEN Raise("ClusteringError", <<"local">>)
       ELSE Return([segments |-> merged_segments,
                    speakers |-> {merged_segments[i].speaker : i \in DOMAIN merged_segments},
                    total_speakers |-> Cardinality(SetOf(labels))],
                   <<"local">>)

\* self.scaler once LocalDiarization.diarize is over, returned or raised
ScalerAfterLocalDiarize(self_scaler, audio, wlen, hop) ==
    LET time_windows == ExtractFeatures(audio, wlen, hop)
    IN IF Len(time_windows) = 0 THEN self_scaler
       ELSE ClusterSpeakers(self_scaler, audio, time_windows).scaler

----------------------------------------------------------------------------
(* PyAnnoteDiarization (src/pyannote_diarization.py) *)

MergeGapSeconds == 2      \* "< 2.0" in _merge_speaker_segments
NoMaxDuration == 0        \* max_duration=None (None and 0 are both falsy)

PipelineFailure == "pipeline failure"

\* The collaborator object HybridDiarization holds: by the time the constructor
\* has returned, _check_and_load_model has set its pipeline.
LoadedDiarizer == "PyAnnoteDiarization"

PipelineOf(self) == IF self = LoadedDiarizer THEN "Pipeline" ELSE NoneValue

\* f"Speaker_{speaker}"
ExternalLabel(speaker) == <<"Speaker", speaker>>

\* f"Speaker_{speaker}_chunk{chunk_count}"
ChunkLabel(speaker, chunk_count) == <<"Speaker", speaker, "_chunk", Str(chunk_count)>>

\* label.split("_chunk")[0]
BaseLabel(label) ==
    LET marks == {i \in DOMAIN label : label[i] = "_chunk"}
    IN IF marks = {} THEN label
       ELSE SubSeq(label, 1, (CHOOSE i \in marks : \A j \in marks : i <= j) - 1)

RECURSIVE MergeSpeakerFrom(_, _, _)

\* _merge_speaker_segments without its sort
MergeSpeakerSegmentsUnsorted(segs) ==
    IF Len(segs) = 0 THEN <<>>
    ELSE MergeSpeakerFrom(segs, 2, <<segs[1]>>)

\* _merge_speaker_segments comparing whole labels, chunk marker included
RECURSIVE MergeSpeakerFromWholeLabels(_, _, _)
MergeSpeakerFromWholeLabels(segs, i, acc) ==
    IF i > Len(segs) THEN acc
    ELSE LET seg == segs[i]
             last_seg == acc[Len(acc)]
         IN IF /\ seg.speaker = last_seg.speaker
               /\ seg.start - last_seg.end < MergeGapSeconds
            THEN MergeSpeakerFromWholeLabels(segs, i + 1,
                     [acc EXCEPT ![Len(acc)] =
                         [last_seg EXCEPT !.end = seg.end,
                                          !.speaker = BaseLabel(last_seg.speaker)]])
            ELSE MergeSpeakerFromWholeLabels(segs, i + 1,
                     Append(acc, [seg EXCEPT !.speaker = BaseLabel(seg.speaker)]))

\* _merge_speaker_segments merging at a gap of exactly 2.0 s too
RECURSIVE MergeSpeakerFromInclusiveGap(_, _, _)
MergeSpeakerFromInclusiveGap(segs, i, acc) ==
    IF i > Len(segs) THEN acc
    ELSE LET seg == segs[i]
             last_seg == acc[Len(acc)]
         IN IF /\ BaseLabel(seg.speaker) = BaseLabel(last_seg.speaker)
               /\ seg.start - last_seg.end <= MergeGapSeconds
            THEN MergeSpeakerFromInclusiveGap(segs, i + 1,
                     [acc EXCEPT ![Len(acc)] =
                         [last_seg EXCEPT !.end = seg.end,
                                          !.speaker = BaseLabel(last_seg.speaker)]])
            ELSE MergeSpeakerFromInclusiveGap(segs, i + 1,
                     Append(acc, [seg EXCEPT !.speaker = BaseLabel(seg.speaker)]))

\* _merge_speaker_segments, the loop over segments[1:]
MergeSpeakerFrom(segs, i, acc) ==
    IF i > Len(segs) THEN acc
    ELSE LET seg == segs[i]
             last_seg == acc[Len(acc)]
         IN IF /\ BaseLabel(seg.speaker) = BaseLabel(last_seg.speaker)
               /\ seg.start - last_seg.end < MergeGapSeconds
            THEN MergeSpeakerFrom(segs, i + 1,
                     [acc EXCEPT ![Len(acc)] =
                         [last_seg EXCEPT !.end = seg.end,
                                          !.speaker = BaseLabel(last_seg.speaker)]])
            ELSE MergeSpeakerFrom(segs, i + 1,
                     Append(acc, [seg EXCEPT !.speaker = BaseLabel(seg.speaker)]))

MergeSpeakerSegments(segs) ==
    IF Len(segs) = 0 THEN <<>>
    ELSE LET sorted == SortByStart(segs)
         IN MergeSpeakerFrom(sorted, 2, <<sorted[1]>>)

\* range(0, len(y), chunk_samples), as start times
ChunkStarts(length, chunk_samples) ==
    [k \in 1..((length + chunk_samples - 1) \div chunk_samples) |-> (k - 1) * chunk_samples]

\* The whole-file branch of diarize (lines 116-167): one pipeline run on the
\* preprocessed audio; any exception becomes an error dict.
DiarizeWholeFile(audio) ==
    LET turns == audio.whole.turns
        segs == SortByStart([i \in 1..Len(turns) |->
                    [start |-> turns[i].start,
                     end |-> turns[i].end,
                     speaker |-> ExternalLabel(turns[i].speaker)]])
        speakers == {ExternalLabel(turns[i].speaker) : i \in DOMAIN turns}
    IN IF audio.whole.raises
       THEN Return([segments |-> <<>>, speakers |-> {}, total_speakers |-> 0,
                    error |-> PipelineFailure, method |-> "pyannote"],
                   <<"pyannote_whole">>)
       ELSE Return([segments |-> segs, speakers |-> speakers,
                    total_speakers |-> Cardinality(speakers),
                    method |-> "pyannote", processing_time |-> "elapsed"],
                   <<"pyannote_whole">>)

\* all_segments of _diarize_chunked after the chunks 1..n have been processed
RECURSIVE ChunkSegments(_, _, _)
ChunkSegments(audio, starts, n) ==
    IF n = 0 THEN <<>>
    ELSE LET turns == audio.chunks[n].turns
         IN ChunkSegments(audio, starts, n - 1) \o
            [i \in 1..Len(turns) |->
                [start |-> turns[i].start + starts[n],
                 end |-> turns[i].end + starts[n],
                 speaker |-> ChunkLabel(turns[i].speaker, n - 1)]]

RECURSIVE PyAnnoteDiarize(_, _, _)

\* _diarize_chunked: one pipeline run per chunk; an exception in any of them
\* abandons the chunks and calls diarize(audio_file, max_duration=None)
DiarizeChunked(self, audio, chunk_duration) ==
    LET starts == ChunkStarts(audio.duration, chunk_duration)
        failed == \E k \in DOMAIN starts : audio.chunks[k].raises
        merged_segments == MergeSpeakerSegments(ChunkSegments(audio, starts, Len(starts)))
        speakers == {merged_segments[i].speaker : i \in DOMAIN merged_segments}
        again == PyAnnoteDiarize(self, audio, NoMaxDuration)
    IN IF failed
       THEN [again EXCEPT !.trace = <<"pyannote_chunked">> \o again.trace]
       ELSE Return([segments |-> merged_segments, speakers |-> speakers,
                    total_speakers |-> Cardinality(speakers),
                    method |-> "pyannote_chunked"],
                   <<"pyannote_chunked">>)

\* PyAnnoteDiarization.diarize
PyAnnoteDiarize(self, audio, max_duration) ==
    IF PipelineOf(self) = NoneValue
    THEN Raise("RuntimeError", <<>>)
    ELSE IF max_duration # NoMaxDuration /\ audio.duration > max_duration
    THEN DiarizeChunked(self, audio, max_duration)
    ELSE DiarizeWholeFile(audio)

----------------------------------------------------------------------------
(* HybridDiarization (src/hybrid_diarization.py) *)

FastMaxDuration == 300    \* max_duration=300 of the pyannote_fast call

\* _init_pyannote: the collaborator is kept only if it was constructed and
\* is_available() answered True
InitPyannote(outcome) ==
    IF outcome = "available" THEN LoadedDiarizer ELSE NoneValue

\* diarize resolving the method without looking at force_method
ChosenMethodIgnoringForce(self_method, diarizer, force_method) ==
    IF self_method = "auto"
    THEN (IF diarizer # NoneValue THEN "pyannote" ELSE "local")
    ELSE self_method

\* diarize, lines 68-71: the method the call resolves to
ChosenMethod(self_method, diarizer, force_method) ==
    LET chosen_method == IF Truthy(force_method) THEN force_method ELSE self_method
    IN IF chosen_method = "auto"
       THEN (IF diarizer # NoneValue THEN "pyannote" ELSE "local")
       ELSE chosen_method

\* diarize, line 76: does the call go to _diarize_with_pyannote
UsesPyannote(chosen_method, diarizer) ==
    chosen_method \in {"pyannote", "pyannote_fast"} /\ diarizer # NoneValue

\* _diarize_with_local; local is the outcome of local_diarizer.diarize
DiarizeWithLocal(local) ==
    IF local.raised THEN local
    ELSE Return(DictSet(local.value, "method_used", "local_clustering"), local.trace)

\* _diarize_with_pyannote; fast and standard are the outcomes of
\* pyannote_diarizer.diarize with max_duration=300 and without it
DiarizeWithPyannote(chosen_method, fast, standard, local) ==
    LET ext == IF chosen_method = "pyannote_fast" THEN fast ELSE standard
        name == IF chosen_method = "pyannote_fast" THEN "pyannote_fast" ELSE "pyannote"
        fallback == DiarizeWithLocal(local)
    IN IF ext.raised
       THEN [fallback EXCEPT !.trace = ext.trace \o fallback.trace]
       ELSE Return(DictSet(ext.value, "method_used", name), ext.trace)

\* get_available_methods
GetAvailableMethods(diarizer) ==
    [pyannote |-> diarizer # NoneValue, local |-> TRUE]

\* diarize giving up the external diarizer once a call fell back to local
DiarizerDroppedOnFallback(diarizer, outcome) ==
    IF Len(outcome.trace) > 1 THEN NoneValue ELSE diarizer

\* self.pyannote_diarizer after a diarize call that ended with outcome:
\* diarize, _diarize_with_pyannote and _diarize_with_local never assign it
DiarizerAfterDiarize(diarizer, outcome) == diarizer

\* HybridDiarization.diarize
HybridDiarize(self_method, diarizer, force_method, fast, standard, local) ==
    LET chosen_method == ChosenMethod(self_method, diarizer, force_method)
    IN IF UsesPyannote(chosen_method, diarizer)
       THEN DiarizeWithPyannote(chosen_method, fast, standard, local)
       ELSE DiarizeWithLocal(local)

----------------------------------------------------------------------------
(* The inputs of a diarize call *)

Methods == {"auto", "pyannote", "pyannote_fast", "local"}

ForceMethods == {NoneValue} \cup Methods

InitOutcomes == {"import_error", "load_error", "not_available", "available"}

\* Audio durations (s): short, at the chunking threshold, just above it, and
\* two full chunks.  (A file _get_audio_duration cannot load counts as 0.0 s
\* long and takes the whole-file branch like the short one.)
Durations == {120, 300, 301, 600}

ExternalSpeakers == {"SPEAKER_00", "SPEAKER_01"}

\* (start, end) of the turns a pipeline run may report, relative to its input
TurnIntervals == {<<0, 1>>, <<299, 300>>, <<0, 300>>}

Turns(length) ==
    {[start |-> iv[1], end |-> iv[2], speaker |-> s] :
        iv \in {x \in TurnIntervals : x[2] <= length}, s \in ExternalSpeakers}

TurnLists(length) == UNION {[1..n -> Turns(length)] : n \in 0..MaxTurns}

PipelineRaises == [raises |-> TRUE, turns |-> <<>>]

\* What one pipeline run on `length` seconds of audio can do
PipelineOutcomes(length) ==
    {PipelineRaises} \cup {[raises |-> FALSE, turns |-> t] : t \in TurnLists(length)}

NoTurns == [raises |-> FALSE, turns |-> <<>>]

\* The pipeline runs a call with this chosen method performs on audio of
\* duration d; runs the call never makes are left at NoTurns.
ExternalInputs(external, chosen_method, d) ==
    IF ~external
    THEN {[whole |-> NoTurns, chunks |-> <<>>]}
    ELSE IF chosen_method = "pyannote_fast" /\ d > FastMaxDuration
    THEN LET starts == ChunkStarts(d, FastMaxDuration)
             fits(f) == \A k \in DOMAIN starts : \A i \in DOMAIN f[k].turns :
                           f[k].turns[i].end <= Min(FastMaxDuration, d - starts[k])
             runs == {f \in [DOMAIN starts -> PipelineOutcomes(FastMaxDuration)] : fits(f)}
         IN UNION {{[whole |-> w, chunks |-> f] :
                      w \in (IF \E k \in DOMAIN f : f[k].raises
                             THEN PipelineOutcomes(d) ELSE {NoTurns})} : f \in runs}
    ELSE {[whole |-> w, chunks |-> <<>>] : w \in PipelineOutcomes(d)}

ClusterRaises == [raises |-> TRUE, labels |-> <<>>]

\* What cluster_speakers can do on n feature vectors
ClusterOutcomes(n) ==
    {ClusterRaises} \cup {[raises |-> FALSE, labels |-> l] : l \in [1..n -> 0..MaxLabel]}

NoSpeech == [speech |-> {}, cluster |-> ClusterRaises]

\* The speech windows and the clustering of audio of duration d, when the
\* call runs the local diarizer
LocalInputs(needed, d, wlen, hop) ==
    IF ~needed
    THEN {NoSpeech}
    ELSE UNION {LET n == Len(ExtractFeatures([duration |-> d, speech |-> sp],
                                             wlen, hop))
                IN IF n = 0 THEN {NoSpeech}
                   ELSE {[speech |-> sp, cluster |-> c] : c \in ClusterOutcomes(n)} :
                sp \in SUBSET (0..MaxWindowStart)}

NoArgs == [force_method |-> NoneValue,
           audio |-> [duration |-> 0, whole |-> NoTurns, chunks |-> <<>>,
                      speech |-> {}, cluster |-> ClusterRaises],
           scaler |-> UnfittedScaler]

----------------------------------------------------------------------------
(* The orchestrator with its PyAnnoteDiarization collaborator *)

AlignIdle ==
    /\ transcript = <<>>
    /\ diarization = <<>>
    /\ aligned = <<>>

MergeIdle ==
    /\ segments = <<>>
    /\ merged = <<>>

Init ==
    /\ method \in Methods
    /\ init_outcome \in InitOutcomes
    /\ pyannote_diarizer = InitPyannote(init_outcome)
    /\ scaler = UnfittedScaler
    /\ pc = "idle"
    /\ call = NoArgs
    /\ ret = NoCall
    /\ window_length = DefaultWindowLength
    /\ hop_length = DefaultHopLength
    /\ AlignIdle
    /\ MergeIdle

\* One call of HybridDiarization.diarize(audio_file, force_method)
Diarize ==
    /\ pc = "idle"
    /\ \E force_method \in ForceMethods, d \in Durations :
         LET chosen_method == ChosenMethod(method, pyannote_diarizer, force_method)
             external == UsesPyannote(chosen_method, pyannote_diarizer)
         IN \E e \in ExternalInputs(external, chosen_method, d) :
              LET heard == [duration |-> d, whole |-> e.whole, chunks |-> e.chunks]
                  fast == PyAnnoteDiarize(pyannote_diarizer, heard, FastMaxDuration)
                  standard == PyAnnoteDiarize(pyannote_diarizer, heard, NoMaxDuration)
                  ext == IF chosen_method = "pyannote_fast" THEN fast ELSE standard
              IN \E l \in LocalInputs(~external \/ ext.raised, d,
                                      window_length, hop_length) :
                   LET audio == [duration |-> d, whole |-> e.whole, chunks |-> e.chunks,
                                 speech |-> l.speech, cluster |-> l.cluster]
                   IN /\ call' = [force_method |-> force_method, audio |-> audio,
                                   scaler |-> scaler]
                      /\ ret' = HybridDiarize(method, pyannote_diarizer, force_method,
                                   PyAnnoteDiarize(pyannote_diarizer, audio, FastMaxDuration),
                                   PyAnnoteDiarize(pyannote_diarizer, audio, NoMaxDuration),
                                   LocalDiarize(scaler, audio, window_length, hop_length))
                      /\ scaler' = IF ~external \/ ext.raised
                                   THEN ScalerAfterLocalDiarize(scaler, audio,
                                            window_length, hop_length)
                                   ELSE scaler
    /\ pc' = "returned"
    /\ pyannote_diarizer' = DiarizerAfterDiarize(pyannote_diarizer, ret')
    /\ UNCHANGED <<init_outcome, method, alignVars, mergeVars>>

\* The caller is done with the returned value; the orchestrator keeps none of it
Discard ==
    /\ pc = "returned"
    /\ pc' = "idle"
    /\ call' = NoArgs
    /\ ret' = NoCall
    /\ UNCHANGED <<orchestratorVars, alignVars, mergeVars>>

Next == Diarize \/ Discard

Spec == Init /\ [][Next]_vars

----------------------------------------------------------------------------
(* The orchestrator with any collaborator that has diarize(): what          *)
(* _diarize_with_pyannote does with each way that call can end              *)

CollaboratorFailure == "ExternalFailure"

CollaboratorResults ==
    {[segments |-> <<[start |-> 0, end |-> 1, speaker |-> ExternalLabel(s)]>>,
      speakers |-> {ExternalLabel(s)}, total_speakers |-> 1] : s \in ExternalSpeakers}
    \cup {[segments |-> <<>>, speakers |-> {}, total_speakers |-> 0]}

\* The call self.pyannote_diarizer.diarize(...) returns a dict or raises
CollaboratorOutcomes ==
    {Raise(CollaboratorFailure, <<"external">>)}
    \cup {Return(v, <<"external">>) : v \in CollaboratorResults}

NoCollaboratorCall == Return(EmptyDict, <<>>)

\* One call of HybridDiarization.diarize(audio_file, force_method) on an
\* orchestrator whose collaborator answers x
DiarizeWithCollaborator ==
    /\ pc = "idle"
    /\ \E force_method \in ForceMethods, d \in Durations :
         LET chosen_method == ChosenMethod(method, pyannote_diarizer, force_method)
             external == UsesPyannote(chosen_method, pyannote_diarizer)
         IN \E x \in (IF external THEN CollaboratorOutcomes ELSE {NoCollaboratorCall}) :
              \E l \in LocalInputs(~external \/ x.raised, d, window_length, hop_length) :
                 LET audio == [duration |-> d, whole |-> NoTurns, chunks |-> <<>>,
                               speech |-> l.speech, cluster |-> l.cluster]
                 IN /\ call' = [force_method |-> force_method, audio |-> audio,
                                collaborator |-> x, scaler |-> scaler]
                    /\ ret' = HybridDiarize(method, pyannote_diarizer, force_method, x, x,
                                            LocalDiarize(scaler, audio, window_length,
                                                         hop_length))
                    /\ scaler' = IF ~external \/ x.raised
                                 THEN ScalerAfterLocalDiarize(scaler, audio,
                                          window_length, hop_length)
                                 ELSE scaler
    /\ pc' = "returned"
    /\ UNCHANGED <<init_outcome, method, pyannote_diarizer, alignVars, mergeVars>>

NextCollaborator == DiarizeWithCollaborator \/ Discard

SpecCollaborator == Init /\ [][NextCollaborator]_vars

----------------------------------------------------------------------------
(* MeetingTranscriber alignment (src/srv/meeting_transcriber.py) *)

UnknownSpeaker == <<"Unknown">>

\* overlap_duration of _find_best_speaker_overlap
OverlapDuration(asr_start, asr_end, speaker_start, speaker_end) ==
    LET overlap_start == Max(asr_start, speaker_start)
        overlap_end == Min(asr_end, speaker_end)
    IN Max(0, overlap_end - overlap_start)

\* The loop of _find_best_speaker_overlap comparing with >= instead of >
RECURSIVE FindBestFromKeepingLast(_, _, _, _, _, _)
FindBestFromKeepingLast(asr_start, asr_end, speaker_segments, i, max_overlap, best_speaker) ==
    IF i > Len(speaker_segments) THEN best_speaker
    ELSE LET speaker_seg == speaker_segments[i]
             overlap_duration == OverlapDuration(asr_start, asr_end,
                                                 speaker_seg.start, speaker_seg.end)
         IN IF overlap_duration >= max_overlap
            THEN FindBestFromKeepingLast(asr_start, asr_end, speaker_segments, i + 1,
                                         overlap_duration, speaker_seg.speaker)
            ELSE FindBestFromKeepingLast(asr_start, asr_end, speaker_segments, i + 1,
                                         max_overlap, best_speaker)

\* _find_best_speaker_overlap, the loop from speaker_segments[i] on
RECURSIVE FindBestFrom(_, _, _, _, _, _)
FindBestFrom(asr_start, asr_end, speaker_segments, i, max_overlap, best_speaker) ==
    IF i > Len(speaker_segments) THEN best_speaker
    ELSE LET speaker_seg == speaker_segments[i]
             overlap_duration == OverlapDuration(asr_start, asr_end,
                                                 speaker_seg.start, speaker_seg.end)
         IN IF overlap_duration > max_overlap
            THEN FindBestFrom(asr_start, asr_end, speaker_segments, i + 1,
                              overlap_duration, speaker_seg.speaker)
            ELSE FindBestFrom(asr_start, asr_end, speaker_segments, i + 1,
                              max_overlap, best_speaker)

\* _find_best_speaker_overlap with max_overlap starting below zero
FindBestSpeakerOverlapFromBelowZero(asr_start, asr_end, speaker_segments) ==
    FindBestFrom(asr_start, asr_end, speaker_segments, 1, -1, UnknownSpeaker)

FindBestSpeakerOverlap(asr_start, asr_end, speaker_segments) ==
    FindBestFrom(asr_start, asr_end, speaker_segments, 1, 0, UnknownSpeaker)

\* The alignment leaving out the transcript segments no speaker overlaps
AlignSegmentsMatchedOnly(asr_segments, speaker_segments) ==
    LET kept == SelectSeq(asr_segments,
                    LAMBDA a : FindBestSpeakerOverlap(a.start, a.end, speaker_segments)
                               # UnknownSpeaker)
    IN [i \in 1..Len(kept) |->
           [start |-> kept[i].start,
            end |-> kept[i].end,
            text |-> kept[i].text,
            speaker |-> FindBestSpeakerOverlap(kept[i].start, kept[i].end, speaker_segments),
            duration |-> kept[i].end - kept[i].start]]

\* aligned_segments of _align_transcription_and_speakers
AlignSegments(asr_segments, speaker_segments) ==
    [i \in 1..Len(asr_segments) |->
        [start |-> asr_segments[i].start,
         end |-> asr_segments[i].end,
         text |-> asr_segments[i].text,
         speaker |-> FindBestSpeakerOverlap(asr_segments[i].start, asr_segments[i].end,
                                            speaker_segments),
         duration |-> asr_segments[i].end - asr_segments[i].start]]

MaxTranscript == 2   \* transcript segments handed to one alignment
MaxDiarization == 2  \* diarization segments handed to one alignment

AlignTimes == 0..3

Intervals(T) == {iv \in T \X T : iv[1] < iv[2]}

\* Transcripts: the i-th segment carries the text "i"
Transcripts ==
    {[i \in DOMAIN ivs |-> [start |-> ivs[i][1], end |-> ivs[i][2], text |-> Str(i)]] :
        ivs \in UNION {[1..k -> Intervals(AlignTimes)] : k \in 0..MaxTranscript}}

SpeakerSegments ==
    {[start |-> iv[1], end |-> iv[2], speaker |-> LocalLabel(l)] :
        iv \in Intervals(AlignTimes), l \in 0..1}

ListsUpTo(S, n) == UNION {[1..k -> S] : k \in 0..n}

OrchestratorIdle ==
    /\ init_outcome = "import_error"
    /\ method = "auto"
    /\ pyannote_diarizer = InitPyannote(init_outcome)
    /\ scaler = UnfittedScaler
    /\ call = NoArgs
    /\ ret = NoCall

InitAlign ==
    /\ OrchestratorIdle
    /\ MergeIdle
    /\ window_length = DefaultWindowLength
    /\ hop_length = DefaultHopLength
    /\ pc = "idle"
    /\ transcript \in Transcripts
    /\ diarization \in ListsUpTo(SpeakerSegments, MaxDiarization)
    /\ aligned = <<>>

\* _align_transcription_and_speakers on the two segment lists
Align ==
    /\ pc = "idle"
    /\ aligned' = AlignSegments(transcript, diarization)
    /\ pc' = "aligned"
    /\ UNCHANGED <<orchestratorVars, callVars, mergeVars, transcript, diarization>>

SpecAlign == InitAlign /\ [][Align]_vars

----------------------------------------------------------------------------
(* The two segment merges on their own *)

MaxWindow == 3         \* window_length is 1..MaxWindow
MaxHop == 2            \* hop_length is 1..MaxHop
MaxMergeSegments == 3  \* segments handed to the external merge

\* The labelled windows LocalDiarization.diarize hands to its merge (lines
\* 204-210): windows of length wlen at multiples of hop, one label each
LabelledWindows(wlen, hop) ==
    UNION {LET w == ExtractFeatures([duration |-> (MaxWindowStart + 1) * hop + wlen,
                                     speech |-> {k * hop : k \in ks}], wlen, hop)
           IN {[i \in DOMAIN w |-> [start |-> w[i].start, end |-> w[i].end,
                                    speaker |-> LocalLabel(l[i])]] :
                 l \in [DOMAIN w -> 0..MaxLabel]} :
           ks \in SUBSET (0..MaxWindowStart)}

MergeIntervals == {<<0, 1>>, <<0, 2>>, <<1, 2>>, <<2, 3>>, <<3, 4>>, <<0, 4>>}

\* The segments _diarize_chunked collects (lines 262-267), in any order
ChunkedSegments ==
    {[start |-> iv[1], end |-> iv[2], speaker |-> ChunkLabel(sp, c)] :
        iv \in MergeIntervals, sp \in ExternalSpeakers, c \in 0..1}

InitMerge ==
    /\ OrchestratorIdle
    /\ AlignIdle
    /\ pc \in {"local_input", "external_input"}
    /\ window_length \in (IF pc = "local_input" THEN 1..MaxWindow ELSE {DefaultWindowLength})
    /\ hop_length \in (IF pc = "local_input" THEN 1..MaxHop ELSE {DefaultHopLength})
    /\ segments \in (IF pc = "local_input"
                     THEN LabelledWindows(window_length, hop_length)
                     ELSE ListsUpTo(ChunkedSegments, MaxMergeSegments))
    /\ merged = <<>>

\* LocalDiarization._merge_consecutive_segments(segments)
MergeLocal ==
    /\ pc = "local_input"
    /\ merged' = MergeConsecutiveSegments(segments, hop_length)
    /\ pc' = "local_merged"
    /\ UNCHANGED <<orchestratorVars, callVars, alignVars, window_length, hop_length, segments>>

\* PyAnnoteDiarization._merge_speaker_segments(segments)
MergeExternal ==
    /\ pc = "external_input"
    /\ merged' = MergeSpeakerSegments(segments)
    /\ pc' = "external_merged"
    /\ UNCHANGED <<orchestratorVars, callVars, alignVars, window_length, hop_length, segments>>

\* _merge_consecutive_segments applied to what it returned
RemergeLocal ==
    /\ pc = "local_merged"
    /\ segments' = merged
    /\ merged' = MergeConsecutiveSegments(merged, hop_length)
    /\ pc' = "local_remerged"
    /\ UNCHANGED <<orchestratorVars, callVars, alignVars, window_length, hop_length>>

\* _merge_speaker_segments applied to what it returned
RemergeExternal ==
    /\ pc = "external_merged"
    /\ segments' = merged
    /\ merged' = MergeSpeakerSegments(merged)
    /\ pc' = "external_remerged"
    /\ UNCHANGED <<orchestratorVars, callVars, alignVars, window_length, hop_length>>

NextMerge == MergeLocal \/ MergeExternal \/ RemergeLocal \/ RemergeExternal

SpecMerge == InitMerge /\ [][NextMerge]_vars

----------------------------------------------------------------------------
(* PyAnnoteDiarization.diarize(audio_file, max_duration=300), the chunk     *)
(* loop of _diarize_chunked taken one iteration at a time.  call holds the  *)
(* arguments and the loop's locals, segments is all_segments, merged is     *)
(* merged_segments; call.runs lists the pipeline invocations made so far.   *)

\* Audio durations (s) of the fast calls: below, at and just above the
\* threshold, two full chunks, two chunks and a part
FastDurations == {120, 300, 301, 600, 650}

\* min(start_sample + chunk_samples, len(y)) without the min
ChunkEndUnclamped(start_sample, chunk_samples, length) == start_sample + chunk_samples

\* end_sample = min(start_sample + chunk_samples, len(y))
ChunkEnd(start_sample, chunk_samples, length) == Min(start_sample + chunk_samples, length)

\* start_sample of the iteration the loop is at: range(0, len(y), chunk_samples)
StartSample == call.chunk_count * call.max_duration

\* The file _preprocess_audio writes: pyannote_preprocessed_<pid>.wav
PreprocessedTempFile == <<"pyannote_preprocessed">>

\* The NamedTemporaryFile(suffix='.wav', delete=False) of one loop iteration
ChunkTempFile(chunk_count) == <<"chunk", Str(chunk_count)>>

\* The temporary files on disk after the whole-file branch: the preprocessed
\* copy is written before the pipeline runs and _cleanup_temp_file unlinks it
\* in the finally clause, whether the pipeline returned or raised
TempFilesAfterWholeFile(files) ==
    (files \cup {PreprocessedTempFile}) \ {PreprocessedTempFile}

\* The temporary files on disk after one loop iteration: the chunk's file is
\* written before the pipeline runs, and os.unlink is reached only when the
\* pipeline and the collection of its turns returned
TempFilesAfterChunk(files, chunk_count, raises) ==
    IF raises
    THEN files \cup {ChunkTempFile(chunk_count)}
    ELSE (files \cup {ChunkTempFile(chunk_count)}) \ {ChunkTempFile(chunk_count)}

InitChunked ==
    /\ init_outcome = "available"
    /\ method = "pyannote_fast"
    /\ pyannote_diarizer = InitPyannote(init_outcome)
    /\ scaler = UnfittedScaler
    /\ AlignIdle
    /\ MergeIdle
    /\ window_length = DefaultWindowLength
    /\ hop_length = DefaultHopLength
    /\ pc = "fast_called"
    /\ \E d \in FastDurations :
         call = [audio_duration |-> d, max_duration |-> FastMaxDuration,
                 chunk_count |-> 0, runs |-> <<>>, temp_files |-> {}]
    /\ ret = NoCall

\* diarize up to its branch: audio longer than max_duration goes to
\* _diarize_chunked, anything else is one pipeline run on the whole file
DiarizeFast ==
    /\ pc = "fast_called"
    /\ IF call.max_duration # NoMaxDuration /\ call.audio_duration > call.max_duration
       THEN /\ pc' = "chunk_loop"
            /\ UNCHANGED <<call, ret>>
       ELSE \E w \in PipelineOutcomes(call.audio_duration) :
              /\ call' = [call EXCEPT !.runs =
                             Append(@, [input |-> "whole", start |-> 0,
                                        end |-> call.audio_duration,
                                        raises |-> w.raises, turns |-> w.turns]),
                                      !.temp_files = TempFilesAfterWholeFile(@)]
              /\ ret' = DiarizeWholeFile([whole |-> w])
              /\ pc' = "returned"
    /\ UNCHANGED <<orchestratorVars, alignVars, mergeVars>>

\* One iteration of the loop whose pipeline run returns: the turns are
\* shifted by start_time and collected under the chunk's label
ProcessChunk ==
    /\ pc = "chunk_loop"
    /\ StartSample < call.audio_duration
    /\ LET end_sample == ChunkEnd(StartSample, call.max_duration, call.audio_duration)
       IN \E turns \in TurnLists(end_sample - StartSample) :
            /\ segments' = segments \o
                   [i \in 1..Len(turns) |->
                       [start |-> turns[i].start + StartSample,
                        end |-> turns[i].end + StartSample,
                        speaker |-> ChunkLabel(turns[i].speaker, call.chunk_count)]]
            /\ call' = [call EXCEPT !.chunk_count = @ + 1,
                                    !.runs = Append(@, [input |-> "chunk",
                                                        start |-> StartSample,
                                                        end |-> end_sample,
                                                        raises |-> FALSE,
                                                        turns |-> turns]),
                                    !.temp_files =
                                        TempFilesAfterChunk(@, call.chunk_count, FALSE)]
    /\ UNCHANGED <<orchestratorVars, alignVars, pc, ret, window_length, hop_length, merged>>

\* One iteration whose pipeline run raises: the except clause gives up the
\* chunks and returns self.diarize(audio_file, max_duration=None)
ChunkFails ==
    /\ pc = "chunk_loop"
    /\ StartSample < call.audio_duration
    /\ \E w \in PipelineOutcomes(call.audio_duration) :
         LET end_sample == ChunkEnd(StartSample, call.max_duration, call.audio_duration)
             again == DiarizeWholeFile([whole |-> w])
         IN /\ call' = [call EXCEPT !.runs =
                           @ \o <<[input |-> "chunk", start |-> StartSample,
                                   end |-> end_sample, raises |-> TRUE, turns |-> <<>>],
                                  [input |-> "whole", start |-> 0,
                                   end |-> call.audio_duration,
                                   raises |-> w.raises, turns |-> w.turns]>>,
                                    !.temp_files = TempFilesAfterWholeFile(
                                        TempFilesAfterChunk(@, call.chunk_count, TRUE))]
            /\ ret' = [again EXCEPT !.trace = <<"pyannote_chunked">> \o again.trace]
    /\ pc' = "returned"
    /\ UNCHANGED <<orchestratorVars, alignVars, mergeVars>>

\* The loop is over: merge what was collected and return it
FinishChunked ==
    /\ pc = "chunk_loop"
    /\ StartSample >= call.audio_duration
    /\ merged' = MergeSpeakerSegments(segments)
    /\ ret' = Return([segments |-> merged',
                      speakers |-> {merged'[i].speaker : i \in DOMAIN merged'},
                      total_speakers |->
                          Cardinality({merged'[i].speaker : i \in DOMAIN merged'}),
                      method |-> "pyannote_chunked"],
                     <<"pyannote_chunked">>)
    /\ pc' = "returned"
    /\ UNCHANGED <<orchestratorVars, alignVars, call, window_length, hop_length, segments>>

NextChunked == DiarizeFast \/ ProcessChunk \/ ChunkFails \/ FinishChunked

SpecChunked == InitChunked /\ [][NextChunked]_vars

----------------------------------------------------------------------------
(* LocalDiarization.estimate_speakers on its own.  call holds the number of *)
(* feature vectors, max_speakers and the inertia k-means would reach for    *)
(* each k; ret.value holds the estimate and the k values that were run.     *)

MaxFeatures == 4      \* feature vectors handed to estimate_speakers: 0..MaxFeatures
MaxSpeakersArg == 4   \* max_speakers is 1..MaxSpeakersArg
MaxInertia == 2       \* inertias are 0..MaxInertia

\* range(1, min(max_speakers + 1, len(features) + 1))
KRange(n, max_speakers) == 1..(Min(max_speakers + 1, n + 1) - 1)

\* np.diff(inertias, 2): the differences of the differences
Diff2(inertias) ==
    [i \in 1..(Len(inertias) - 2) |->
        (inertias[i + 2] - inertias[i + 1]) - (inertias[i + 1] - inertias[i])]

\* An argmax that returns the last position of the maximum
ArgMaxLast(xs) ==
    (CHOOSE i \in DOMAIN xs :
        /\ \A j \in DOMAIN xs : xs[j] <= xs[i]
        /\ \A j \in DOMAIN xs : j > i => xs[j] < xs[i]) - 1

\* np.argmax: the 0-based position of the first occurrence of the maximum
ArgMax(xs) ==
    (CHOOSE i \in DOMAIN xs :
        /\ \A j \in DOMAIN xs : xs[j] <= xs[i]
        /\ \A j \in DOMAIN xs : j < i => xs[j] < xs[i]) - 1

\* estimate_speakers without its "len(inertias) < 2" return
EstimateSpeakersUnguarded(n, max_speakers, inertia_of) ==
    IF n < 2 THEN 1
    ELSE LET k_range == KRange(n, max_speakers)
             inertias == [k \in k_range |-> inertia_of[k]]
             diff2 == Diff2(inertias)
         IN IF Len(diff2) > 0
            THEN Min(ArgMax(diff2) + 2, max_speakers)
            ELSE 2

\* estimate_speakers(features, max_speakers); inertia_of[k] is
\* kmeans.inertia_ after the fit with n_clusters=k
EstimateSpeakers(n, max_speakers, inertia_of) ==
    IF n < 2 THEN 1
    ELSE LET k_range == KRange(n, max_speakers)
             inertias == [k \in k_range |-> inertia_of[k]]
             diff2 == Diff2(inertias)
         IN IF Len(inertias) < 2 THEN 1
            ELSE IF Len(diff2) > 0
            THEN Min(ArgMax(diff2) + 2, max_speakers)
            ELSE 2

\* The k values the loop fits k-means with
FittedK(n, max_speakers) == IF n < 2 THEN {} ELSE KRange(n, max_speakers)

InitEstimate ==
    /\ init_outcome = "import_error"
    /\ method = "local"
    /\ pyannote_diarizer = InitPyannote(init_outcome)
    /\ scaler = UnfittedScaler
    /\ AlignIdle
    /\ MergeIdle
    /\ window_length = DefaultWindowLength
    /\ hop_length = DefaultHopLength
    /\ pc = "estimate_called"
    /\ \E n \in 0..MaxFeatures, max_speakers \in 1..MaxSpeakersArg :
         \E inertia_of \in [1..MaxSpeakersArg -> 0..MaxInertia] :
            call = [n_features |-> n, max_speakers |-> max_speakers,
                    inertia_of |-> inertia_of]
    /\ ret = NoCall

\* One call of estimate_speakers
Estimate ==
    /\ pc = "estimate_called"
    /\ ret' = Return([n_speakers |-> EstimateSpeakers(call.n_features, call.max_speakers,
                                                      call.inertia_of),
                      fitted |-> FittedK(call.n_features, call.max_speakers)],
                     <<"estimate_speakers">>)
    /\ pc' = "estimated"
    /\ UNCHANGED <<orchestratorVars, alignVars, mergeVars, call>>

SpecEstimate == InitEstimate /\ [][Estimate]_vars

----------------------------------------------------------------------------
(* Timestamp formatting: MeetingTranscriber._format_timestamp (timeline)    *)
(* and demo._format_time (durations).  A formatted string is the sequence   *)
(* of its characters.  call.seconds is the time, ret.value the string.      *)

MaxSeconds == 3700   \* times formatted are 0..MaxSeconds

\* The decimal digits of n, as "d" formats them
RECURSIVE Digits(_)
Digits(n) == IF n < 10 THEN <<Str(n)>> ELSE Digits(n \div 10) \o <<Str(n % 10)>>

\* f"{n:02d}": zero-padded to at least two digits
Pad2(n) == IF n < 10 THEN <<"0">> \o Digits(n) ELSE Digits(n)

\* MeetingTranscriber._format_timestamp(seconds)
FormatTimestamp(seconds) ==
    LET minutes == seconds \div 60
        secs == seconds % 60
    IN Pad2(minutes) \o <<":">> \o Pad2(secs)

\* demo._format_time(seconds)
FormatTime(seconds) ==
    LET hours == seconds \div 3600
        minutes == (seconds % 3600) \div 60
        secs == seconds % 60
    IN IF hours > 0
       THEN Pad2(hours) \o <<":">> \o Pad2(minutes) \o <<":">> \o Pad2(secs)
       ELSE Pad2(minutes) \o <<":">> \o Pad2(secs)

InitTimestamp ==
    /\ init_outcome = "import_error"
    /\ method = "auto"
    /\ pyannote_diarizer = InitPyannote(init_outcome)
    /\ scaler = UnfittedScaler
    /\ AlignIdle
    /\ MergeIdle
    /\ window_length = DefaultWindowLength
    /\ hop_length = DefaultHopLength
    /\ pc = "timestamp_input"
    /\ \E seconds \in 0..MaxSeconds : call = [seconds |-> seconds]
    /\ ret = NoCall

\* A timeline entry's timestamp: _format_timestamp(seg["start"])
FormatTimeline ==
    /\ pc = "timestamp_input"
    /\ ret' = Return(FormatTimestamp(call.seconds), <<"_format_timestamp">>)
    /\ pc' = "timestamp_formatted"
    /\ UNCHANGED <<orchestratorVars, alignVars, mergeVars, call>>

\* A printed speaker or total duration: _format_time(total_duration)
FormatDuration ==
    /\ pc = "timestamp_input"
    /\ ret' = Return(FormatTime(call.seconds), <<"_format_time">>)
    /\ pc' = "timestamp_formatted"
    /\ UNCHANGED <<orchestratorVars, alignVars, mergeVars, call>>

NextTimestamp == FormatTimeline \/ FormatDuration

SpecTimestamp == InitTimestamp /\ [][NextTimestamp]_vars

----------------------------------------------------------------------------
(* MeetingTranscriber.transcribe_meeting.  call holds what the ASR and the  *)
(* diarizer do on this audio, aligned the aligned segments, ret the outcome *)
(* with the steps that were run as its trace.                               *)

AsrFailure == "asr failure"

\* f"ASR失败: {asr_result['error']}"
AsrErrorMessage(message) == <<"ASR failed: ", message>>

\* f"说话人分离失败: {diarization_result['error']}"
DiarizationErrorMessage(message) == <<"diarization failed: ", message>>

\* CrossPlatformASR.transcribe_with_timestamps: the formatted result, or the
\* error dict its except clause returns
AsrResults ==
    {[segments |-> <<>>, text |-> "", error |-> AsrFailure]}
    \cup {[segments |-> t, text |-> "text", language |-> "en", engine |-> "openai"] :
             t \in Transcripts}

\* The ways HybridDiarization.diarize(audio_file) ends: a result with
\* segments (possibly none), a result with an error, an exception
DiarizerOutcomes ==
    {Return([segments |-> d,
             speakers |-> {d[i].speaker : i \in DOMAIN d},
             total_speakers |-> Cardinality({d[i].speaker : i \in DOMAIN d}),
             method_used |-> "local_clustering"], <<"local">>) :
        d \in ListsUpTo(SpeakerSegments, MaxDiarization)}
    \cup {Return([segments |-> <<>>, speakers |-> {}, error |-> NoSpeechMessage,
                  method_used |-> "local_clustering"], <<"local">>),
           Raise("ClusteringError", <<"local">>)}

NotCalled == Raise("not called", <<>>)

\* result.get(key, default)
Get(d, k, default) == IF Has(d, k) THEN d[k] ELSE default

\* _align_transcription_and_speakers
AlignTranscriptionAndSpeakers(asr_result, diarization_result) ==
    [aligned_segments |-> AlignSegments(Get(asr_result, "segments", <<>>),
                                        Get(diarization_result, "segments", <<>>)),
     total_speakers |-> Get(diarization_result, "total_speakers", 0),
     speakers |-> Get(diarization_result, "speakers", {}),
     language |-> Get(asr_result, "language", "unknown")]

\* The first loop of _generate_meeting_summary overwriting a speaker's entry
\* at each of its segments
RECURSIVE SpeakerStatsOverwriting(_, _, _)
SpeakerStatsOverwriting(segs, i, stats) ==
    IF i > Len(segs) THEN stats
    ELSE LET speaker == segs[i].speaker
         IN SpeakerStatsOverwriting(segs, i + 1,
                DictSet(stats, speaker,
                        [total_duration |-> segs[i].duration, segment_count |-> 1]))

\* The first loop of _generate_meeting_summary: speaker_stats after the
\* segments i.. have been added to stats
RECURSIVE SpeakerStatsFrom(_, _, _)
SpeakerStatsFrom(segs, i, stats) ==
    IF i > Len(segs) THEN stats
    ELSE LET speaker == segs[i].speaker
             known == IF Has(stats, speaker) THEN stats
                      ELSE DictSet(stats, speaker,
                                   [total_duration |-> 0, segment_count |-> 0])
         IN SpeakerStatsFrom(segs, i + 1,
                DictSet(known, speaker,
                        [total_duration |-> known[speaker].total_duration + segs[i].duration,
                         segment_count |-> known[speaker].segment_count + 1]))

\* The same loop's speaker_content: each speaker's texts in segment order
RECURSIVE SpeakerContentFrom(_, _, _)
SpeakerContentFrom(segs, i, content) ==
    IF i > Len(segs) THEN content
    ELSE LET speaker == segs[i].speaker
             known == IF Has(content, speaker) THEN content
                      ELSE DictSet(content, speaker, <<>>)
         IN SpeakerContentFrom(segs, i + 1,
                DictSet(known, speaker, Append(known[speaker], segs[i].text)))

\* max(xs) of a non-empty list
RECURSIVE MaxOf(_, _)
MaxOf(xs, n) == IF n = 1 THEN xs[1] ELSE Max(MaxOf(xs, n - 1), xs[n])

\* _generate_meeting_summary (transcription_date left out)
GenerateMeetingSummary(aligned_result) ==
    LET segs == aligned_result.aligned_segments
        ends == [i \in DOMAIN segs |-> segs[i].end]
    IN [meeting_info |->
            [total_duration |-> IF Len(segs) > 0 THEN MaxOf(ends, Len(ends)) ELSE 0,
             total_speakers |-> aligned_result.total_speakers,
             language |-> aligned_result.language],
        speaker_statistics |-> SpeakerStatsFrom(segs, 1, EmptyDict),
        timeline |->
            [i \in DOMAIN segs |->
                [timestamp |-> FormatTimestamp(segs[i].start),
                 speaker |-> segs[i].speaker,
                 text |-> segs[i].text,
                 start_seconds |-> segs[i].start,
                 end_seconds |-> segs[i].end]],
        speaker_content |-> SpeakerContentFrom(segs, 1, EmptyDict),
        segments |-> segs]

\* transcribe_meeting; diarized is how self.diarizer.diarize(audio_file) ends
TranscribeMeeting(asr_result, diarized) ==
    IF Has(asr_result, "error")
    THEN Return([error |-> AsrErrorMessage(asr_result["error"])], <<"asr">>)
    ELSE IF diarized.raised
    THEN Raise(diarized.exc, <<"asr", "diarization">>)
    ELSE IF Has(diarized.value, "error")
    THEN Return([error |-> DiarizationErrorMessage(diarized.value["error"])],
                <<"asr", "diarization">>)
    ELSE Return(DictSet(GenerateMeetingSummary(
                            AlignTranscriptionAndSpeakers(asr_result, diarized.value)),
                        "processing_time", "elapsed"),
                <<"asr", "diarization", "alignment", "summary">>)

InitMeeting ==
    /\ init_outcome = "import_error"
    /\ method = "auto"
    /\ pyannote_diarizer = InitPyannote(init_outcome)
    /\ scaler = UnfittedScaler
    /\ AlignIdle
    /\ MergeIdle
    /\ window_length = DefaultWindowLength
    /\ hop_length = DefaultHopLength
    /\ pc = "idle"
    /\ call = [asr |-> [segments |-> <<>>], diarized |-> NotCalled]
    /\ ret = NoCall

\* One call of transcribe_meeting(audio_file)
Transcribe ==
    /\ pc = "idle"
    /\ \E asr_result \in AsrResults :
         \E diarized \in (IF Has(asr_result, "error") THEN {NotCalled} ELSE DiarizerOutcomes) :
            /\ call' = [asr |-> asr_result, diarized |-> diarized]
            /\ ret' = TranscribeMeeting(asr_result, diarized)
            /\ transcript' = asr_result.segments
            /\ diarization' = IF diarized.raised THEN <<>> ELSE diarized.value["segments"]
            /\ aligned' = IF ret'.raised \/ Has(ret'.value, "error") THEN <<>>
                          ELSE ret'.value["segments"]
    /\ pc' = "transcribed"
    /\ UNCHANGED <<orchestratorVars, mergeVars>>

\* The caller is done with the result; the transcriber keeps none of it
Forget ==
    /\ pc = "transcribed"
    /\ pc' = "idle"
    /\ call' = [asr |-> [segments |-> <<>>], diarized |-> NotCalled]
    /\ ret' = NoCall
    /\ transcript' = <<>>
    /\ diarization' = <<>>
    /\ aligned' = <<>>
    /\ UNCHANGED <<orchestratorVars, mergeVars>>

NextMeeting == Transcribe \/ Forget

SpecMeeting == InitMeeting /\ [][NextMeeting]_vars

----------------------------------------------------------------------------
(* Claims about HybridDiarization.diarize *)

Returned == pc = "returned"

\* force_method if given, else the configured method
EffectiveMethod == IF call.force_method # NoneValue THEN call.force_method ELSE method

ExternalRequested == EffectiveMethod \in {"auto", "pyannote", "pyannote_fast"}

LocalOutcome == LocalDiarize(call.scaler, call.audio, window_length, hop_length)

RanExternal == \E i \in DOMAIN ret.trace : ret.trace[i] # "local"

RanLocal == \E i \in DOMAIN ret.trace : ret.trace[i] = "local"

Producer == ret.trace[Len(ret.trace)]

\* C1: when the collaborator exists and its diarize call raises, diarize
\* (method auto, pyannote or pyannote_fast) returns what the local diarizer
\* produced, with method_used = "local_clustering", and the collaborator's
\* exception does not reach the caller.
C1_ExternalRaiseFallsBackToLocal ==
    (/\ Returned
     /\ pyannote_diarizer # NoneValue
     /\ ExternalRequested
     /\ call.collaborator.raised)
    => /\ ret.exc # CollaboratorFailure
       /\ ~ret.raised
       /\ RanLocal
       /\ ret.value["method_used"] = "local_clustering"
       /\ \A k \in DOMAIN LocalOutcome.value : ret.value[k] = LocalOutcome.value[k]

\* Some pipeline run the external path made during the call raised
PipelineFailed ==
    /\ UsesPyannote(ChosenMethod(method, pyannote_diarizer, call.force_method),
                    pyannote_diarizer)
    /\ IF /\ ChosenMethod(method, pyannote_diarizer, call.force_method) = "pyannote_fast"
          /\ call.audio.duration > FastMaxDuration
       THEN \E k \in DOMAIN call.audio.chunks : call.audio.chunks[k].raises
       ELSE call.audio.whole.raises

\* C2: any error inside the external path, a pipeline failure of the
\* whole-file or of the chunked run included, makes diarize retry through the
\* local path: the result comes from the local diarizer and has
\* method_used = "local_clustering".
C2_ExternalErrorRetriesLocally ==
    (Returned /\ PipelineFailed)
    => /\ RanLocal
       /\ Producer = "local"
       /\ ~ret.raised => ret.value["method_used"] = "local_clustering"

\* C3: no failure of a diarization path leaves diarize as an exception; the
\* local path answers a failed pipeline (no features, failed clustering) with
\* a result that has error set and no segments.
C3_DiarizeNeverRaises ==
    Returned
    => /\ ~ret.raised
       /\ (RanLocal /\ (Len(ExtractFeatures(call.audio, window_length, hop_length)) = 0
                        \/ call.audio.cluster.raises))
          => (Has(ret.value, "error") /\ ret.value["segments"] = <<>>)

\* C4: every returned result has either segments and no error field, or an
\* error field and no segments.
C4_SegmentsOrError ==
    (Returned /\ ~ret.raised)
    => \/ (Len(ret.value["segments"]) > 0 /\ ~Has(ret.value, "error"))
       \/ (Has(ret.value, "error") /\ Len(ret.value["segments"]) = 0)

\* C5: the effective method is force_method if given, else the configured
\* one; auto runs the external whole-file method iff the collaborator was
\* constructed and available at initialization, else the local path;
\* pyannote and pyannote_fast run the collaborator iff it exists and
\* otherwise the local path, adding no error; local never runs the
\* collaborator.
C5_MethodResolution ==
    Returned
    => /\ (pyannote_diarizer # NoneValue) = (init_outcome = "available")
       /\ EffectiveMethod = "auto" =>
            IF init_outcome = "available"
            THEN ret.trace = <<"pyannote_whole">> /\ ret.value["method_used"] = "pyannote"
            ELSE ret.trace = <<"local">>
       /\ EffectiveMethod \in {"pyannote", "pyannote_fast"} =>
            (RanExternal = (pyannote_diarizer # NoneValue))
       /\ EffectiveMethod = "pyannote" /\ RanExternal =>
            ret.trace = <<"pyannote_whole">>
       /\ EffectiveMethod = "local" => ~RanExternal
       /\ ~RanExternal =>
            /\ ret.trace = <<"local">>
            /\ ret.raised = LocalOutcome.raised
            /\ ~ret.raised =>
                 /\ ret.value["method_used"] = "local_clustering"
                 /\ Has(ret.value, "error") = Has(LocalOutcome.value, "error")
                 /\ ret.value["segments"] = LocalOutcome.value["segments"]

C5_Witness ==
    /\ Returned
    /\ method = "local"
    /\ call.force_method = "pyannote_fast"
    /\ pyannote_diarizer = NoneValue
    /\ ~ret.raised
    /\ ~Has(ret.value, "error")
    /\ ret.value["method_used"] = "local_clustering"

\* C6: method_used names the path that produced the result: local_clustering
\* iff the local diarizer did, pyannote iff the external whole-file path did,
\* pyannote_fast iff the external chunked path did.
C6_MethodUsedNamesProducer ==
    (Returned /\ ~ret.raised)
    => /\ (ret.value["method_used"] = "local_clustering") = (Producer = "local")
       /\ (ret.value["method_used"] = "pyannote") = (Producer = "pyannote_whole")
       /\ (ret.value["method_used"] = "pyannote_fast") = (Producer = "pyannote_chunked")

----------------------------------------------------------------------------
(* Claims about the alignment *)

Aligned == pc = "aligned"

\* max(0, min(t.end, d.end) - max(t.start, d.start))
Overlap(t, d) ==
    LET lo == IF t.start > d.start THEN t.start ELSE d.start
        hi == IF t.end < d.end THEN t.end ELSE d.end
    IN IF hi - lo > 0 THEN hi - lo ELSE 0

RECURSIVE SumOf(_, _)
SumOf(f, n) == IF n = 0 THEN 0 ELSE f[n] + SumOf(f, n - 1)

\* C7: one aligned segment per transcript segment, in order, with start, end
\* and text unchanged and duration = end - start, so the durations sum to the
\* transcript's total span.
C7_AlignmentKeepsTranscript ==
    Aligned
    => /\ Len(aligned) = Len(transcript)
       /\ \A i \in DOMAIN transcript :
            /\ aligned[i].start = transcript[i].start
            /\ aligned[i].end = transcript[i].end
            /\ aligned[i].text = transcript[i].text
            /\ aligned[i].duration = transcript[i].end - transcript[i].start
       /\ SumOf([i \in DOMAIN aligned |-> aligned[i].duration], Len(aligned))
            = SumOf([i \in DOMAIN transcript |-> transcript[i].end - transcript[i].start],
                    Len(transcript))

C7_Witness ==
    /\ Aligned
    /\ Len(transcript) = 2
    /\ Len(diarization) = 2
    /\ aligned[1].speaker = UnknownSpeaker
    /\ aligned[2].speaker # UnknownSpeaker
    /\ transcript[1].start > transcript[2].start

\* The segment j of the diarization is the earliest of those with the largest
\* overlap with transcript segment t
EarliestMaximal(t, j) ==
    /\ \A k \in DOMAIN diarization : Overlap(t, diarization[k]) <= Overlap(t, diarization[j])
    /\ \A k \in 1..(j - 1) : Overlap(t, diarization[k]) < Overlap(t, diarization[j])

\* C8 as stated: every transcript segment gets the speaker of the diarization
\* segment with the largest overlap, the earliest in list order among ties.
C8_SpeakerOfEarliestMaximalOverlap ==
    Aligned
    => \A i \in DOMAIN transcript :
         \E j \in DOMAIN diarization :
            /\ EarliestMaximal(transcript[i], j)
            /\ aligned[i].speaker = diarization[j].speaker

\* C8 amended: every transcript segment that overlaps some diarization segment
\* gets the speaker of the diarization segment with the largest overlap, the
\* earliest in list order among ties.
C8_SpeakerOfEarliestMaximalPositiveOverlap ==
    Aligned
    => \A i \in DOMAIN transcript :
         (\E k \in DOMAIN diarization : Overlap(transcript[i], diarization[k]) > 0)
         => \E j \in DOMAIN diarization :
               /\ EarliestMaximal(transcript[i], j)
               /\ aligned[i].speaker = diarization[j].speaker

\* Two diarization segments of different speakers tie at the largest overlap
C8_Witness ==
    /\ Aligned
    /\ Len(transcript) > 0
    /\ Len(diarization) = 2
    /\ diarization[1].speaker # diarization[2].speaker
    /\ Overlap(transcript[1], diarization[1]) = Overlap(transcript[1], diarization[2])
    /\ Overlap(transcript[1], diarization[1]) > 0
    /\ aligned[1].speaker = diarization[1].speaker

\* C9: a transcript segment is labelled Unknown iff no diarization segment
\* overlaps it by more than zero.
C9_UnknownIffNoPositiveOverlap ==
    Aligned
    => \A i \in DOMAIN transcript :
         (aligned[i].speaker = UnknownSpeaker)
         = (\A k \in DOMAIN diarization : ~(Overlap(transcript[i], diarization[k]) > 0))

\* A diarization segment ends where the transcript segment starts
C9_Witness ==
    /\ Aligned
    /\ Len(transcript) > 0
    /\ Len(diarization) > 0
    /\ \E k \in DOMAIN diarization : diarization[k].end = transcript[1].start
    /\ aligned[1].speaker = UnknownSpeaker

----------------------------------------------------------------------------
(* Claims about the segment merges *)

Merged == pc \in {"local_merged", "external_merged"}

StartSorted(xs) == \A i \in 1..(Len(xs) - 1) : xs[i].start <= xs[i + 1].start

NonOverlapping(xs) == \A i \in 1..(Len(xs) - 1) : xs[i].end <= xs[i + 1].start

PairwiseDisjoint(xs) ==
    \A i, j \in DOMAIN xs :
        i # j => (xs[i].end <= xs[j].start \/ xs[j].end <= xs[i].start)

\* C10 as stated: the output of either merge is sorted by start and each
\* segment ends no later than the next one starts.
C10_MergedSortedNonOverlapping ==
    Merged => (StartSorted(merged) /\ NonOverlapping(merged))

\* C10 amended: the output of either merge is sorted by start; each segment
\* ends no later than the next one starts when no two input segments overlap.
C10_MergedSortedDisjointKept ==
    Merged
    => /\ StartSorted(merged)
       /\ PairwiseDisjoint(segments) => NonOverlapping(merged)

\* An unsorted chunked list of disjoint segments, two of them merged
C10_Witness ==
    /\ pc = "external_merged"
    /\ ~StartSorted(segments)
    /\ PairwiseDisjoint(segments)
    /\ Len(segments) = 3
    /\ Len(merged) = 2

\* The gap tolerance of the merge that ran, doubled (hop_length * 1.5 is not
\* a whole number)
TwiceTolerance ==
    IF pc \in {"local_merged", "local_remerged"} THEN 3 * hop_length
    ELSE 2 * MergeGapSeconds

\* C11: for any two adjacent segments a then b of a merge's output, their
\* speakers differ or the gap b.start - a.end is at least the tolerance
\* (hop_length * 1.5 for the local merge, 2.0 s for the external one).
C11_AdjacentDifferOrGapAtLeastTolerance ==
    Merged
    => \A i \in 1..(Len(merged) - 1) :
          \/ merged[i].speaker # merged[i + 1].speaker
          \/ 2 * (merged[i + 1].start - merged[i].end) >= TwiceTolerance

Remerged == pc \in {"local_remerged", "external_remerged"}

\* C12: merging is idempotent: a merge applied to its own output (same
\* tolerance) returns that output unchanged, for the local and for the
\* external merge.
C12_MergeIdempotent ==
    Remerged => merged = segments

\* A chunked list whose first merge joined segments of two chunks and left
\* two segments, merged again
C12_Witness ==
    /\ pc = "external_remerged"
    /\ Len(merged) = 2
    /\ merged = segments
    /\ \E i \in DOMAIN merged : merged[i].end - merged[i].start > 2

\* The reference merge of C13, the loop over the windows after the first:
\* a window extends the open segment iff its label is the open segment's and
\* window.start - open_segment.end < hop_length * 1.5
RECURSIVE ReferenceMergeFrom(_, _, _, _)
ReferenceMergeFrom(windows, i, acc, hop) ==
    IF i > Len(windows) THEN acc
    ELSE LET w == windows[i]
             open == acc[Len(acc)]
         IN IF w.speaker = open.speaker /\ 2 * (w.start - open.end) < 3 * hop
            THEN ReferenceMergeFrom(windows, i + 1, [acc EXCEPT ![Len(acc)].end = w.end], hop)
            ELSE ReferenceMergeFrom(windows, i + 1, Append(acc, w), hop)

ReferenceMerge(windows, hop) ==
    IF Len(windows) = 0 THEN <<>>
    ELSE ReferenceMergeFrom(windows, 2, <<windows[1]>>, hop)

\* C13: for every time-ordered list of labelled windows the local merge
\* returns what the reference merge returns.
C13_LocalMergeIsReferenceMerge ==
    pc = "local_merged" => merged = ReferenceMerge(segments, hop_length)

----------------------------------------------------------------------------
(* Claims about the chunked external diarization *)

\* A fast call on audio longer than 300 s has returned
ChunkedReturned ==
    /\ pc = "returned"
    /\ Has(call, "runs")
    /\ call.audio_duration > FastMaxDuration

\* ceil(D / 300)
ExpectedChunks == (call.audio_duration + FastMaxDuration - 1) \div FastMaxDuration

\* The (start, end) pairs of the turns of the runs 1..n, each shifted by its
\* run's start
RECURSIVE ShiftedTurns(_, _)
ShiftedTurns(runs, n) ==
    IF n = 0 THEN <<>>
    ELSE ShiftedTurns(runs, n - 1) \o
         [i \in 1..Len(runs[n].turns) |->
             <<runs[n].turns[i].start + FastMaxDuration * (n - 1),
               runs[n].turns[i].end + FastMaxDuration * (n - 1)>>]

\* The model was run once on each of the ceil(D/300) chunks
\* [300k, min(300(k+1), D)), in increasing k, and on nothing else, and the
\* intervals collected are the returned ones with 300k added
ChunksRunAndShifted ==
    /\ Len(call.runs) = ExpectedChunks
    /\ \A k \in DOMAIN call.runs :
          /\ call.runs[k].input = "chunk"
          /\ call.runs[k].start = FastMaxDuration * (k - 1)
          /\ call.runs[k].end = Min(FastMaxDuration * k, call.audio_duration)
          /\ call.runs[k].start < call.runs[k].end
    /\ [i \in DOMAIN segments |-> <<segments[i].start, segments[i].end>>]
          = ShiftedTurns(call.runs, Len(call.runs))

----------------------------------------------------------------------------
(* Claims about estimate_speakers *)

Estimated == pc = "estimated"

\* C15: estimate_speakers returns exactly 1 for fewer than 2 feature vectors
\* and, for 2 or more, an integer in 1..max_speakers, whatever max_speakers
\* >= 1 and the inertias are.
C15_EstimateInRange ==
    Estimated
    => /\ call.n_features < 2 => ret.value.n_speakers = 1
       /\ call.n_features >= 2 =>
            (ret.value.n_speakers >= 1 /\ ret.value.n_speakers <= call.max_speakers)

\* max_speakers = 1 with several feature vectors: the estimate is 1
C15_Witness ==
    /\ Estimated
    /\ call.n_features >= 2
    /\ call.max_speakers = 1
    /\ ret.value.n_speakers = 1

\* The inertias of the k values that were fitted, in order of k
FittedInertias == [k \in ret.value.fitted |-> call.inertia_of[k]]

\* The first 0-based position of the maximum of the second difference
FirstElbow ==
    LET d2 == Diff2(FittedInertias)
    IN CHOOSE i \in 0..(Len(d2) - 1) :
          /\ \A j \in DOMAIN d2 : d2[j] <= d2[i + 1]
          /\ \A j \in 1..i : d2[j] < d2[i + 1]

\* C16 as stated: for 2 or more feature vectors the inertias are computed
\* for k = 1..min(max_speakers, n); a non-empty second difference gives
\* min(i* + 2, max_speakers), i* the first position of its maximum; an
\* empty one gives 2.
C16_ElbowOrTwo ==
    (Estimated /\ call.n_features >= 2)
    => /\ ret.value.fitted = 1..Min(call.max_speakers, call.n_features)
       /\ ret.value.n_speakers =
            IF Len(FittedInertias) > 2
            THEN Min(FirstElbow + 2, call.max_speakers)
            ELSE 2

\* C16 amended: the same, except that an empty second difference gives 2
\* when two inertias were computed and 1 when only one was (max_speakers = 1).
C16_ElbowOrTwoOrOne ==
    (Estimated /\ call.n_features >= 2)
    => /\ ret.value.fitted = 1..Min(call.max_speakers, call.n_features)
       /\ ret.value.n_speakers =
            IF Len(FittedInertias) > 2
            THEN Min(FirstElbow + 2, call.max_speakers)
            ELSE IF Len(FittedInertias) = 2 THEN 2 ELSE 1

\* Four inertias whose second difference is largest at its second position,
\* and three speakers estimated
C16_Witness ==
    /\ Estimated
    /\ Len(FittedInertias) = 4
    /\ Diff2(FittedInertias)[2] > Diff2(FittedInertias)[1]
    /\ ret.value.n_speakers = 3

----------------------------------------------------------------------------
(* Claims about the degenerate clustering *)

\* C17: when feature extraction yields exactly one feature vector, the local
\* diarization returns a single-speaker result: total_speakers = 1, every
\* segment with the same speaker label, no error and no exception.
C17_SingleVectorSingleSpeaker ==
    (/\ Returned
     /\ RanLocal
     /\ Len(ExtractFeatures(call.audio, window_length, hop_length)) = 1)
    => /\ ~ret.raised
       /\ ~Has(ret.value, "error")
       /\ ret.value["total_speakers"] = 1
       /\ Len(ret.value["segments"]) > 0
       /\ \A i, j \in DOMAIN ret.value["segments"] :
             ret.value["segments"][i].speaker = ret.value["segments"][j].speaker

----------------------------------------------------------------------------
(* Claims about timestamp formatting *)

IsDigit(c) == \E d \in 0..9 : Str(d) = c

DigitValue(c) == CHOOSE d \in 0..9 : Str(d) = c

\* The two characters at i, i+1 of s are digits; their value
IsField(s, i) == IsDigit(s[i]) /\ IsDigit(s[i + 1])

FieldValue(s, i) == 10 * DigitValue(s[i]) + DigitValue(s[i + 1])

\* MM:SS, two digits each, both fields in 0..59
IsMMSS(s) ==
    /\ Len(s) = 5
    /\ s[3] = ":"
    /\ IsField(s, 1) /\ FieldValue(s, 1) <= 59
    /\ IsField(s, 4) /\ FieldValue(s, 4) <= 59

\* HH:MM:SS, two digits each, minutes and seconds in 0..59
IsHHMMSS(s) ==
    /\ Len(s) = 8
    /\ s[3] = ":" /\ s[6] = ":"
    /\ IsField(s, 1)
    /\ IsField(s, 4) /\ FieldValue(s, 4) <= 59
    /\ IsField(s, 7) /\ FieldValue(s, 7) <= 59

\* C18: every timestamp of the timeline, and every formatted duration, is
\* MM:SS when the time is under one hour and HH:MM:SS otherwise, each field
\* exactly two digits, minutes and seconds in 0..59.
C18_TimestampFormat ==
    pc = "timestamp_formatted"
    => IF call.seconds < 3600 THEN IsMMSS(ret.value) ELSE IsHHMMSS(ret.value)

----------------------------------------------------------------------------
(* Claims about transcribe_meeting *)

Transcribed == pc = "transcribed"

Contains(message, part) == \E i \in DOMAIN message : message[i] = part

\* C19: an ASR result with an error gives a result that is only an error
\* containing the ASR's message, with no diarization, alignment or summary
\* run; a diarization result with an error gives an error containing the
\* diarization message, with no alignment run; otherwise alignment and
\* summary complete and the result has no error field.
C19_MeetingErrorPropagation ==
    Transcribed
    => IF Has(call.asr, "error")
       THEN /\ ~ret.raised
            /\ DOMAIN ret.value = {"error"}
            /\ Contains(ret.value["error"], call.asr["error"])
            /\ ret.trace = <<"asr">>
       ELSE IF ~call.diarized.raised /\ Has(call.diarized.value, "error")
       THEN /\ ~ret.raised
            /\ DOMAIN ret.value = {"error"}
            /\ Contains(ret.value["error"], call.diarized.value["error"])
            /\ ret.trace = <<"asr", "diarization">>
       ELSE /\ ~ret.raised
            /\ ~Has(ret.value, "error")
            /\ ret.trace = <<"asr", "diarization", "alignment", "summary">>
            /\ Len(ret.value["timeline"]) = Len(call.asr["segments"])

----------------------------------------------------------------------------
(* Claims about speaker labels across chunks *)

\* The chunked run went through all its chunks and returned their merge
ChunkedFinished == ChunkedReturned /\ ret.trace = <<"pyannote_chunked">>

\* chunk_count of the chunk a collected segment came from (the last token of
\* its label)
ChunkOf(seg) == seg.speaker[Len(seg.speaker)]

\* The collected turn p is one the final segment i starts with
Opens(p, i) ==
    /\ segments[p].start = merged[i].start
    /\ BaseLabel(segments[p].speaker) = BaseLabel(merged[i].speaker)

\* C20: speaker turns of different chunks carry the same label in the final
\* result only if the 2.0-second adjacency merge put them in one segment:
\* two different final segments that start with turns of different chunks
\* have different speaker labels.
C20_NoCrossChunkIdentity ==
    ChunkedFinished
    => \A i, j \in DOMAIN merged :
          (i # j /\ merged[i].speaker = merged[j].speaker)
          => ~\E p, q \in DOMAIN segments :
                /\ ChunkOf(segments[p]) # ChunkOf(segments[q])
                /\ Opens(p, i)
                /\ Opens(q, j)

----------------------------------------------------------------------------
(* Claims about the meeting summary *)

\* transcribe_meeting returned a summary
Summarised == Transcribed /\ ~ret.raised /\ ~Has(ret.value, "error")

\* C21: the summary's timeline is chronological: its entries are in
\* non-decreasing start_seconds order, whatever the order of the transcript's
\* segments.
C21_TimelineChronological ==
    Summarised
    => \A i \in 1..(Len(ret.value["timeline"]) - 1) :
          ret.value["timeline"][i].start_seconds
             <= ret.value["timeline"][i + 1].start_seconds

\* The sum of f over the finite set S
RECURSIVE SumOver(_, _)
SumOver(S, f) ==
    IF S = {} THEN 0
    ELSE LET x == CHOOSE y \in S : TRUE
         IN f[x] + SumOver(S \ {x}, f)

\* The positions of the aligned segments of speaker s
SegmentsOf(s) == {i \in DOMAIN aligned : aligned[i].speaker = s}

\* C22: for every speaker s, speaker_statistics[s].segment_count is the
\* number of aligned segments of s and total_duration the sum of their
\* durations; the counts add up to the number of aligned segments (the
\* length of the timeline), the durations to the sum of all aligned
\* durations, and a speaker has an entry iff an aligned segment carries it.
C22_SpeakerStatistics ==
    Summarised
    => LET stats == ret.value["speaker_statistics"]
       IN /\ DOMAIN stats = {aligned[i].speaker : i \in DOMAIN aligned}
          /\ \A s \in DOMAIN stats :
                /\ stats[s].segment_count = Cardinality(SegmentsOf(s))
                /\ stats[s].total_duration =
                      SumOver(SegmentsOf(s), [i \in DOMAIN aligned |-> aligned[i].duration])
          /\ SumOver(DOMAIN stats, [s \in DOMAIN stats |-> stats[s].segment_count])
                = Len(aligned)
          /\ Len(ret.value["timeline"]) = Len(aligned)
          /\ SumOver(DOMAIN stats, [s \in DOMAIN stats |-> stats[s].total_duration])
                = SumOver(DOMAIN aligned, [i \in DOMAIN aligned |-> aligned[i].duration])

\* Two aligned segments of one diarized speaker, of different durations
C22_Witness ==
    /\ Summarised
    /\ Len(aligned) = 2
    /\ aligned[1].speaker = aligned[2].speaker
    /\ aligned[1].speaker # UnknownSpeaker
    /\ aligned[1].duration # aligned[2].duration
    /\ ret.value["speaker_statistics"][aligned[1].speaker].segment_count = 2

----------------------------------------------------------------------------
(* Claims about retries *)

\* How many of the paths a call went through are (not) the local one
LocalRuns == Cardinality({i \in DOMAIN ret.trace : ret.trace[i] = "local"})

ExternalRuns == Cardinality({i \in DOMAIN ret.trace : ret.trace[i] # "local"})

\* C23: one diarize call retries nothing but a single substitution of the
\* local path for a failed external one: the local diarizer runs at most
\* once and so does the external path (a failed chunked run does not lead to
\* a whole-file run on the same audio).
C23_NoRetryButLocalFallback ==
    Returned
    => /\ LocalRuns <= 1
       /\ ExternalRuns <= 1

----------------------------------------------------------------------------
(* Claims about the adjacency merge of the chunked run *)

\* Two consecutive segments of the time-sorted list belong together: same
\* base label and a gap under 2.0 s
Joins(current, next) ==
    /\ BaseLabel(current.speaker) = BaseLabel(next.speaker)
    /\ next.start - current.end < 2

\* The positions of the time-sorted list at which a new segment has to start
Breaks(sorted) == {1} \cup {i \in 2..Len(sorted) : ~Joins(sorted[i - 1], sorted[i])}

\* C24: after time-sorting, consecutive segments with the same base label
\* and a gap next.start - current.end under 2.0 s are merged into one
\* segment (across a chunk boundary too); consecutive segments that differ in
\* base label or are 2.0 s or more apart stay separate.
C24_AdjacencyMerge ==
    (pc = "external_merged" /\ Len(segments) > 0)
    => LET sorted == SortByStart(segments)
           breaks == Breaks(sorted)
           first(j) == CHOOSE i \in breaks : Cardinality({b \in breaks : b <= i}) = j
           last(j) == IF j = Cardinality(breaks) THEN Len(sorted) ELSE first(j + 1) - 1
       IN /\ Len(merged) = Cardinality(breaks)
          /\ \A j \in DOMAIN merged :
                /\ merged[j].start = sorted[first(j)].start
                /\ merged[j].end = sorted[last(j)].end
                /\ BaseLabel(merged[j].speaker) = BaseLabel(sorted[first(j)].speaker)

\* Three segments of one base label: two of different chunks merged, one
\* kept apart by a gap of 2 s
C24_Witness ==
    /\ pc = "external_merged"
    /\ Len(segments) = 3
    /\ Len(merged) = 2
    /\ \A i \in DOMAIN segments : BaseLabel(segments[i].speaker) = BaseLabel(segments[1].speaker)
    /\ LET sorted == SortByStart(segments)
       IN \E i \in 1..2 : /\ Joins(sorted[i], sorted[i + 1])
                           /\ sorted[i].speaker # sorted[i + 1].speaker

----------------------------------------------------------------------------
(* Claims about the state the orchestrator keeps between calls *)

\* C25: availability of the external diarizer is decided at construction and
\* never re-probed: no diarize call (successful, failing or falling back)
\* changes whether the orchestrator holds the collaborator, so
\* get_available_methods answers the same after every step.
C25_AvailabilityFixed ==
    [][GetAvailableMethods(pyannote_diarizer') = GetAvailableMethods(pyannote_diarizer)]_vars

\* A call whose external run failed and fell back has returned, and the
\* orchestrator still holds the collaborator it was constructed with
C25_Witness ==
    /\ Returned
    /\ PipelineFailed
    /\ Len(ret.trace) > 1
    /\ GetAvailableMethods(pyannote_diarizer) = GetAvailableMethods(InitPyannote(init_outcome))
    /\ GetAvailableMethods(pyannote_diarizer).pyannote

\* What the same call returns as the first call on a newly constructed
\* orchestrator
FirstCallResult ==
    LET fresh == InitPyannote(init_outcome)
    IN HybridDiarize(method, fresh, call.force_method,
                     PyAnnoteDiarize(fresh, call.audio, FastMaxDuration),
                     PyAnnoteDiarize(fresh, call.audio, NoMaxDuration),
                     LocalDiarize(UnfittedScaler, call.audio, window_length, hop_length))

\* C26: the result of HybridDiarization.diarize does not depend on the calls
\* made before it: for the same audio and method it is what a first call on a
\* new orchestrator returns (the scaler kept on the LocalDiarization instance
\* is refit from the current call's features only).
C26_HistoryIndependent ==
    Returned => ret = FirstCallResult

\* A local run has returned segments on an instance whose scaler an earlier
\* call had fit on another number of feature rows
C26_Witness ==
    /\ Returned
    /\ RanLocal
    /\ ~ret.raised
    /\ Has(ret.value, "segments") /\ Len(ret.value["segments"]) > 1
    /\ call.scaler.n_samples_seen > 0
    /\ call.scaler.n_samples_seen # Len(ExtractFeatures(call.audio, window_length, hop_length))
    /\ scaler.n_samples_seen = Len(ExtractFeatures(call.audio, window_length, hop_length))

----------------------------------------------------------------------------
(* Claims about the extent of merged segments *)

\* Two consecutive windows that the local merge puts together
LocalJoins(current, next) ==
    /\ next.speaker = current.speaker
    /\ 2 * Abs(next.start - current.end) < 3 * hop_length

LocalBreaks(xs) == {1} \cup {i \in 2..Len(xs) : ~LocalJoins(xs[i - 1], xs[i])}

\* The positions of the input list that went into the j-th output segment
Group(breaks, n, j) == {i \in 1..n : Cardinality({b \in breaks : b <= i}) = j}

\* Every output segment has start < end and spans the inputs merged into it
Spans(out, xs, breaks) ==
    /\ Len(out) = Cardinality(breaks)
    /\ \A j \in DOMAIN out :
          LET g == Group(breaks, Len(xs), j)
          IN /\ out[j].start < out[j].end
             /\ \A i \in g : out[j].start <= xs[i].start /\ xs[i].end <= out[j].end
             /\ \E i \in g : out[j].start = xs[i].start
             /\ \E i \in g : out[j].end = xs[i].end

C27_LocalMergeSpans ==
    (pc = "local_merged" /\ Len(segments) > 0)
    => Spans(merged, segments, LocalBreaks(segments))

\* C27: every merged segment has start < end and spans all the input
\* segments merged into it (start the minimum of their starts, end the maximum
\* of their ends; an end is never moved earlier), for the local merge and for
\* the external merge on any time-sorted input of segments with start < end.
C27_MergedSegmentSpansInputs ==
    /\ C27_LocalMergeSpans
    /\ (pc = "external_merged" /\ Len(segments) > 0 /\ StartSorted(segments))
       => Spans(merged, segments, Breaks(segments))

----------------------------------------------------------------------------
(* Claims about the labels of the chunked result *)

\* The label is "Speaker_<id>" with nothing after it
IsBaseLabel(label) == label = BaseLabel(label)

\* C28: in the result of chunked external diarization no segment's speaker
\* and no entry of speakers carries the "_chunk<N>" marker: every output
\* label is the base label, merged with a neighbour or not, the first
\* segment included.
C28_NoChunkMarkerInResult ==
    ChunkedFinished
    => /\ \A i \in DOMAIN ret.value["segments"] :
             IsBaseLabel(ret.value["segments"][i].speaker)
       /\ \A label \in ret.value["speakers"] : IsBaseLabel(label)

----------------------------------------------------------------------------
(* Claims about temporary files *)

\* C29: every temporary audio file created during an external diarization
\* call (the preprocessed copy of the whole file, one file per chunk) has
\* been deleted when the call returns, on success and on every failure path,
\* a model failure while processing a chunk included.
C29_TempFilesDeleted ==
    (pc = "returned" /\ Has(call, "temp_files")) => call.temp_files = {}

----------------------------------------------------------------------------
(* Claims about the speaker list of a result *)

\* diarize returned a result without an error field
ErrorFree == Returned /\ ~ret.raised /\ ~Has(ret.value, "error")

\* C30: in every error-free result of HybridDiarization.diarize (local,
\* whole-file external or chunked external) total_speakers is the number of
\* entries of speakers, and speakers is exactly the set of speaker labels
\* occurring in segments.  (speakers is list(set(..)) in the code, a set here,
\* so it has no duplicates.)
C30_SpeakersConsistent ==
    ErrorFree
    => /\ ret.value["total_speakers"] = Cardinality(ret.value["speakers"])
       /\ ret.value["speakers"] =
              {ret.value["segments"][i].speaker : i \in DOMAIN ret.value["segments"]}

\* A local result in which several windows of one speaker were merged, so
\* that windows, segments and speakers differ in number
C30_Witness ==
    /\ ErrorFree
    /\ Producer = "local"
    /\ Len(ExtractFeatures(call.audio, window_length, hop_length)) > Len(ret.value["segments"])
    /\ Len(ret.value["segments"]) > ret.value["total_speakers"]
    /\ ret.value["total_speakers"] = 2

====
